---- MODULE Spec2Model ----
(***************************************************************************)
(* A model of the duo-auth SDK: parameter encoding (request.rs), request   *)
(* building (request.rs), the response envelope (response.rs), the typed   *)
(* requests (types.rs) and the operation client (client.rs).               *)
(*                                                                         *)
(* Strings are sequences of one-character strings, so that ordering and    *)
(* percent-encoding are computed and not assumed.  Option<T> is a sequence *)
(* of length at most one: None is << >> and Some(v) is <<v>>.              *)
(***************************************************************************)
EXTENDS Integers, Sequences, FiniteSets, TLC

None == << >>
Some(v) == <<v>>
IsSome(o) == Len(o) = 1
Unwrap(o) == o[1]

(***************************************************************************)
(* Characters, in ASCII order; Ord gives the rank of a character, which is *)
(* what the byte-wise Ord of String compares.                              *)
(***************************************************************************)
Ascii ==
  << " ", "%", "&", "-", ".", "/", "0", "1", "2", "3", "4", "5", "6", "7", "8", "9",
     ":", "=", "?", "A", "B", "C", "D", "E", "F", "I", "K", "L", "O", "T", "X",
     "_", "a", "b", "c", "d", "e", "f", "g", "h", "i", "j", "k", "l", "m",
     "n", "o", "p", "q", "r", "s", "t", "u", "v", "w", "x", "y", "z", "~" >>

OrdOf == [c \in {Ascii[i] : i \in 1..Len(Ascii)} |-> CHOOSE i \in 1..Len(Ascii) : Ascii[i] = c]

Ord(c) == OrdOf[c]

\* <String as Ord>::lt : lexicographic comparison of the bytes.
RECURSIVE StrLess(_, _)
StrLess(a, b) ==
  IF b = << >> THEN FALSE
  ELSE IF a = << >> THEN TRUE
  ELSE IF Ord(Head(a)) < Ord(Head(b)) THEN TRUE
  ELSE IF Ord(Head(a)) > Ord(Head(b)) THEN FALSE
  ELSE StrLess(Tail(a), Tail(b))

RECURSIVE Concat(_)
Concat(ss) == IF ss = << >> THEN << >> ELSE Head(ss) \o Concat(Tail(ss))

\* [String]::join(sep)
RECURSIVE Join(_, _)
Join(ss, sep) ==
  IF ss = << >> THEN << >>
  ELSE IF Len(ss) = 1 THEN ss[1]
  ELSE ss[1] \o sep \o Join(Tail(ss), sep)

(***************************************************************************)
(* urlencoding::encode as called by Parameters::serialize: every byte but  *)
(* the unreserved ones (alphanumerics and - _ . ~) becomes %XX.            *)
(***************************************************************************)
PctEncodeChar(c) ==
  CASE c = " " -> <<"%", "2", "0">>
    [] c = "%" -> <<"%", "2", "5">>
    [] c = "&" -> <<"%", "2", "6">>
    [] c = "/" -> <<"%", "2", "F">>
    [] c = ":" -> <<"%", "3", "A">>
    [] c = "=" -> <<"%", "3", "D">>
    [] c = "?" -> <<"%", "3", "F">>
    [] OTHER -> <<c>>

urlencoding_encode(s) == Concat([i \in 1..Len(s) |-> PctEncodeChar(s[i])])

(***************************************************************************)
(* Parameters(BTreeMap<String, String>): the entries in ascending key      *)
(* order, keys unique.                                                     *)
(***************************************************************************)
ParametersDefault == << >>

InsertAt(p, i, e) == SubSeq(p, 1, i - 1) \o <<e>> \o SubSeq(p, i, Len(p))

BTreeMapInsertUnordered(p, k, v) ==
  IF \E i \in 1..Len(p) : p[i].k = k
  THEN [i \in 1..Len(p) |-> IF p[i].k = k THEN [k |-> k, v |-> v] ELSE p[i]]
  ELSE Append(p, [k |-> k, v |-> v])

\* BTreeMap::insert : replace the value of an existing key, else insert in key order.
BTreeMapInsert(p, k, v) ==
  IF \E i \in 1..Len(p) : p[i].k = k
  THEN [i \in 1..Len(p) |-> IF p[i].k = k THEN [k |-> k, v |-> v] ELSE p[i]]
  ELSE LET n == Cardinality({i \in 1..Len(p) : StrLess(p[i].k, k)})
       IN InsertAt(p, n + 1, [k |-> k, v |-> v])

\* A map that keeps insertion order instead of key order.
ParametersSetInsertionOrder(p, k, v) == BTreeMapInsertUnordered(p, k, v)

\* Parameters::set
ParametersSet(p, k, v) == BTreeMapInsert(p, k, v)

\* A set_opt that sends an unset field as the empty string.
ParametersSetOptEmpty(p, k, v) == ParametersSet(p, k, IF IsSome(v) THEN Unwrap(v) ELSE << >>)

\* Parameters::set_opt
ParametersSetOpt(p, k, v) == IF IsSome(v) THEN ParametersSet(p, k, Unwrap(v)) ELSE p

\* Parameters::serialize
ParametersSerialize(p) ==
  Join([i \in 1..Len(p) |-> urlencoding_encode(p[i].k) \o <<"=">> \o urlencoding_encode(p[i].v)],
       <<"&">>)

ParamKeys(p) == {p[i].k : i \in 1..Len(p)}
ParamHas(p, k) == k \in ParamKeys(p)

(***************************************************************************)
(* reqwest::Url, as far as the client uses it: scheme, host, path, query.  *)
(***************************************************************************)
Url(scheme, host, path, query) ==
  [scheme |-> scheme, host |-> host, path |-> path, query |-> query]

\* Url::host_str
host_str(url) == url.host

\* Url::set_path
set_path(url, path) == [url EXCEPT !.path = path]

\* The percent-encoding Url::set_query applies to its input (the query set).
QueryEncodeChar(c) == IF c = " " THEN <<"%", "2", "0">> ELSE <<c>>

\* Url::set_query(Some(query))
set_query(url, query) ==
  [url EXCEPT !.query = Some(Concat([i \in 1..Len(query) |-> QueryEncodeChar(query[i])]))]

(***************************************************************************)
(* Methods and the headers a built reqwest::Request carries.               *)
(***************************************************************************)
Methods == {"GET", "HEAD", "POST", "PUT", "DELETE"}

NoHeaders ==
  [authorization |-> None, date |-> None, content_type |-> None, user_agent |-> None]

FormUrlEncoded == "application/x-www-form-urlencoded"

\* DateTime::to_rfc2822, kept symbolic: the rendering of one instant.
to_rfc2822(date) == [rfc2822 |-> date]

\* hex(HMAC-SHA1(skey, payload)), kept symbolic: a value determined by key and payload.
HmacSha1Hex(skey, payload) == [hmac_sha1 |-> [key |-> skey, payload |-> payload]]

Ok(v) == [tag |-> "Ok", val |-> <<v>>, err |-> << >>]
Err(e) == [tag |-> "Err", val |-> << >>, err |-> <<e>>]
Panic == [tag |-> "Panic", val |-> << >>, err |-> << >>]
IsOk(r) == r.tag = "Ok"
IsErr(r) == r.tag = "Err"
OkVal(r) == r.val[1]
ErrVal(r) == r.err[1]

(***************************************************************************)
(* DuoRequest                                                              *)
(***************************************************************************)
DuoRequestNew(url, method, path, params, now) ==
  [url |-> url, method |-> method, path |-> path, date |-> now, parameters |-> params]

\* Only GET counted as a method without a body.
IsNoBodyGetOnly(method) == method = "GET"

\* let no_body = matches!(self.method, Method::GET | Method::HEAD)
IsNoBody(method) == method \in {"GET", "HEAD"}

\* The payload build_signature signs: five lines joined by "\n".
SignaturePayload(self, parameters_str) ==
  [date |-> to_rfc2822(self.date), method |-> self.method,
   domain |-> Unwrap(host_str(self.url)), path |-> self.path,
   parameters |-> parameters_str]

\* DuoRequest::build_signature: host_str().unwrap() panics when the URL has no host.
build_signature(self, skey, parameters_str) ==
  IF ~IsSome(host_str(self.url)) THEN Panic
  ELSE Ok(HmacSha1Hex(skey, SignaturePayload(self, parameters_str)))

BuildUrl(self, parameters_str) ==
  LET url == set_path(self.url, self.path)
  IN IF IsNoBody(self.method) THEN set_query(url, parameters_str) ELSE url

WithBody(self, headers, parameters_str) ==
  IF ~IsNoBody(self.method)
  THEN [headers |-> [headers EXCEPT !.content_type = Some(FormUrlEncoded)],
        body |-> Some(parameters_str)]
  ELSE [headers |-> headers, body |-> None]

Request(method, url, hb) ==
  [method |-> method, url |-> url, headers |-> hb.headers, body |-> hb.body]

\* DuoRequest::build
build(self, ikey, skey) ==
  LET parameters_str == ParametersSerialize(self.parameters)
      url == BuildUrl(self, parameters_str)
      signature == build_signature(self, skey, parameters_str)
  IN IF ~IsOk(signature) THEN signature
     ELSE Ok(Request(self.method, url,
               WithBody(self,
                        [NoHeaders EXCEPT
                           !.authorization = Some([username |-> ikey, password |-> OkVal(signature)]),
                           !.date = Some(to_rfc2822(self.date))],
                        parameters_str)))

\* DuoRequest::build_no_auth: the request builder refuses a URL without a host.
build_no_auth(self) ==
  LET parameters_str == ParametersSerialize(self.parameters)
      url == BuildUrl(self, parameters_str)
  IN IF ~IsSome(host_str(url)) THEN Err("builder")
     ELSE Ok(Request(self.method, url,
               WithBody(self,
                        [NoHeaders EXCEPT
                           !.date = Some(to_rfc2822(self.date)),
                           !.user_agent = Some("duo-auth-rs")],
                        parameters_str)))

(***************************************************************************)
(* Parameter names (types.rs, client.rs).                                  *)
(***************************************************************************)
K_async == <<"a", "s", "y", "n", "c">>
K_user_id == <<"u", "s", "e", "r", "_", "i", "d">>
K_username == <<"u", "s", "e", "r", "n", "a", "m", "e">>
K_factor == <<"f", "a", "c", "t", "o", "r">>
K_device == <<"d", "e", "v", "i", "c", "e">>
K_type == <<"t", "y", "p", "e">>
K_display_username ==
  <<"d", "i", "s", "p", "l", "a", "y", "_", "u", "s", "e", "r", "n", "a", "m", "e">>
K_push_info == <<"p", "u", "s", "h", "_", "i", "n", "f", "o">>
K_passcode == <<"p", "a", "s", "s", "c", "o", "d", "e">>
K_ipaddr == <<"i", "p", "a", "d", "d", "r">>
K_hostname == <<"h", "o", "s", "t", "n", "a", "m", "e">>
K_trusted_device_token ==
  <<"t", "r", "u", "s", "t", "e", "d", "_", "d", "e", "v", "i", "c", "e", "_",
    "t", "o", "k", "e", "n">>
K_txid == <<"t", "x", "i", "d">>
K_valid_secs == <<"v", "a", "l", "i", "d", "_", "s", "e", "c", "s">>
K_activation_code ==
  <<"a", "c", "t", "i", "v", "a", "t", "i", "o", "n", "_", "c", "o", "d", "e">>

V_1 == <<"1">>
V_auto == <<"a", "u", "t", "o">>
V_push == <<"p", "u", "s", "h">>
V_passcode == <<"p", "a", "s", "s", "c", "o", "d", "e">>
V_phone == <<"p", "h", "o", "n", "e">>
V_sms == <<"s", "m", "s">>

(***************************************************************************)
(* types.rs: User, PreauthRequest, AuthRequest, AuthRequestFactor.         *)
(***************************************************************************)
UserId(id) == [variant |-> "UserId", val |-> id]
Username(username) == [variant |-> "Username", val |-> username]

UserApply(self, p) ==
  IF self.variant = "UserId" THEN ParametersSet(p, K_user_id, self.val)
  ELSE ParametersSet(p, K_username, self.val)

PreauthRequestApply(self, p) ==
  LET p1 == UserApply(self.user, p)
      p2 == ParametersSetOpt(p1, K_ipaddr, self.ipaddr)
      p3 == ParametersSetOpt(p2, K_hostname, self.hostname)
  IN ParametersSetOpt(p3, K_trusted_device_token, self.trusted_device_token)

\* One record shape for the five variants; a variant reads only its own fields.
Factor(variant, device, passcode, type, display_username, push_info) ==
  [variant |-> variant, device |-> device, passcode |-> passcode, type |-> type,
   display_username |-> display_username, push_info |-> push_info]

PushFields(self, p) ==
  LET p1 == ParametersSetOpt(p, K_type, self.type)
      p2 == ParametersSetOpt(p1, K_display_username, self.display_username)
  IN ParametersSetOpt(p2, K_push_info, self.push_info)

AuthRequestFactorApply(self, p) ==
  CASE self.variant = "Auto" ->
         PushFields(self, ParametersSetOpt(ParametersSet(p, K_factor, V_auto),
                                           K_device, self.device))
    [] self.variant = "Push" ->
         PushFields(self, ParametersSet(ParametersSet(p, K_factor, V_push),
                                        K_device, Unwrap(self.device)))
    [] self.variant = "Passcode" ->
         ParametersSet(ParametersSet(p, K_factor, V_passcode), K_passcode, Unwrap(self.passcode))
    [] self.variant = "Phone" ->
         ParametersSet(ParametersSet(p, K_factor, V_phone), K_device, Unwrap(self.device))
    [] self.variant = "Sms" ->
         ParametersSet(ParametersSet(p, K_factor, V_sms), K_device, Unwrap(self.device))

AuthRequestApply(self, p) ==
  LET p1 == UserApply(self.user, p)
      p2 == AuthRequestFactorApply(self.factor, p1)
      p3 == ParametersSetOpt(p2, K_ipaddr, self.ipaddr)
  IN ParametersSetOpt(p3, K_hostname, self.hostname)

\* A ready() that takes Waiting for a refusal.
readyWaitingIsDeny(self) == IF self.result = "Allow" THEN Some(TRUE) ELSE Some(FALSE)

\* AuthStatusResponse::ready
ready(self) ==
  CASE self.result = "Allow" -> Some(TRUE)
    [] self.result = "Deny" -> Some(FALSE)
    [] self.result = "Waiting" -> None

(***************************************************************************)
(* errors.rs                                                               *)
(***************************************************************************)
ApiRequestFailed(code, message, message_detail) ==
  [kind |-> "ApiRequestFailed", code |-> code, message |-> message,
   message_detail |-> message_detail, cause |-> "api"]

\* Error::unspecified
Unspecified(cause) ==
  [kind |-> "Unspecified", code |-> 0, message |-> "", message_detail |-> None,
   cause |-> cause]

InvalidApiDomain(cause) ==
  [kind |-> "InvalidApiDomain", code |-> 0, message |-> "", message_detail |-> None,
   cause |-> cause]

(***************************************************************************)
(* response.rs: the JSON body and the envelope DuoResponse<T>.             *)
(* A body is JSON or not; a JSON body has or lacks each member.  A payload *)
(* has a shape (the members it carries) and the values the client reads.   *)
(***************************************************************************)
Payload(shape, time, txid, result) ==
  [shape |-> shape, time |-> time, txid |-> txid, result |-> result]

JsonBody(stat, response, code, message, message_detail) ==
  [json |-> TRUE, stat |-> stat, response |-> response, code |-> code,
   message |-> message, message_detail |-> message_detail]

NotJson ==
  [json |-> FALSE, stat |-> None, response |-> None, code |-> None,
   message |-> None, message_detail |-> None]

S_OK == <<"O", "K">>
S_FAIL == <<"F", "A", "I", "L">>

\* #[serde(rename_all = "snake_case")] on AuthResult: the names the decoder accepts.
AuthResultOf(name) ==
  CASE name = "allow" -> Some("Allow")
    [] name = "deny" -> Some("Deny")
    [] name = "waiting" -> Some("Waiting")
    [] OTHER -> None

\* The member set each response type needs.
ShapeOf(T) ==
  CASE T = "CheckResponse" -> "time"
    [] T = "PingResponse" -> "time"
    [] T = "AuthResponse" -> "txid"
    [] T = "AuthStatusResponse" -> "auth_status"
    [] T = "PreauthResponse" -> "preauth"
    [] T = "EnrollResponse" -> "enroll"
    [] T = "EnrollStatusResponse" -> "enroll_status"

\* T::deserialize on the `response` member.
DeserializePayload(T, payload) ==
  IF payload.shape # ShapeOf(T) THEN Err("decode")
  ELSE IF T = "AuthStatusResponse"
       THEN IF IsSome(AuthResultOf(payload.result))
            THEN Ok([payload EXCEPT !.result = Unwrap(AuthResultOf(payload.result))])
            ELSE Err("decode")
       ELSE Ok(payload)

DuoResponseOkVariant(response) ==
  [variant |-> "Ok", response |-> <<response>>, code |-> 0, message |-> "",
   message_detail |-> None]

DuoResponseFailVariant(code, message, message_detail) ==
  [variant |-> "Fail", response |-> << >>, code |-> code, message |-> message,
   message_detail |-> message_detail]

\* char::to_ascii_uppercase, for the letters of the variant names.
ToAsciiUpperChar(c) ==
  CASE c = "o" -> "O" [] c = "k" -> "K" [] c = "f" -> "F" [] c = "a" -> "A"
    [] c = "i" -> "I" [] c = "l" -> "L" [] OTHER -> c

ToAsciiUpper(s) == [i \in 1..Len(s) |-> ToAsciiUpperChar(s[i])]

\* A decoder that matches the variant names whatever the letter case.
StatVariantIgnoreCase(stat) ==
  IF ToAsciiUpper(stat) = S_OK THEN Some("Ok")
  ELSE IF ToAsciiUpper(stat) = S_FAIL THEN Some("Fail")
  ELSE None

\* The variant a `stat` value selects: the renamed variant names, matched exactly.
StatVariant(stat) ==
  IF stat = S_OK THEN Some("Ok")
  ELSE IF stat = S_FAIL THEN Some("Fail")
  ELSE None

\* Deserialize for DuoResponse<T> (internally tagged by "stat").
DuoResponseDeserialize(T, b) ==
  IF ~b.json \/ ~IsSome(b.stat) THEN Err("decode")
  ELSE LET variant == StatVariant(Unwrap(b.stat))
       IN IF variant = Some("Ok")
          THEN IF IsSome(b.response) /\ IsOk(DeserializePayload(T, Unwrap(b.response)))
               THEN Ok(DuoResponseOkVariant(OkVal(DeserializePayload(T, Unwrap(b.response)))))
               ELSE Err("decode")
          ELSE IF variant = Some("Fail")
          THEN IF IsSome(b.code) /\ IsSome(b.message)
               THEN Ok(DuoResponseFailVariant(Unwrap(b.code), Unwrap(b.message),
                                              b.message_detail))
               ELSE Err("decode")
          ELSE Err("decode")

\* An ok() that loses the detail of a failure.
DuoResponseOkDropDetail(self) ==
  IF self.variant = "Ok" THEN Ok(Unwrap(self.response))
  ELSE Err(ApiRequestFailed(self.code, self.message, None))

\* DuoResponse::ok
DuoResponseOk(self) ==
  IF self.variant = "Ok" THEN Ok(Unwrap(self.response))
  ELSE Err(ApiRequestFailed(self.code, self.message, self.message_detail))

(***************************************************************************)
(* What the transport gives back for one request: an error, or a response  *)
(* with a body.                                                            *)
(***************************************************************************)
TransportError == [net |-> "error", body |-> NotJson]
Response(b) == [net |-> "ok", body |-> b]

\* DuoClient::send_request_json, given what client.execute returns.
send_request_json(T, outcome) ==
  IF outcome.net = "error" THEN Err(Unspecified("transport"))
  ELSE LET body == DuoResponseDeserialize(T, outcome.body)
       IN IF IsErr(body) THEN Err(Unspecified("decode"))
          ELSE DuoResponseOk(OkVal(body))

(***************************************************************************)
(* Url::parse, for the shapes of input the model draws: a scheme is a      *)
(* letter followed by letters up to the first ':'; "//" starts an          *)
(* authority, which ends at '/' or '?'; a special scheme needs a host.     *)
(***************************************************************************)
Letters ==
  {"a", "b", "c", "d", "e", "f", "g", "h", "i", "j", "k", "l", "m", "n", "o", "p",
   "q", "r", "s", "t", "u", "v", "w", "x", "y", "z"}

SCHEME_https == <<"h", "t", "t", "p", "s">>
SCHEME_http == <<"h", "t", "t", "p">>
SpecialSchemes == {SCHEME_https, SCHEME_http}

\* The first index of s holding a character of cs, or Len(s) + 1.
FindFirst(s, cs) ==
  IF \E i \in 1..Len(s) : s[i] \in cs
  THEN CHOOSE i \in 1..Len(s) : s[i] \in cs /\ \A j \in 1..(i - 1) : s[j] \notin cs
  ELSE Len(s) + 1

UrlParse(input) ==
  LET colon == FindFirst(input, {":"})
      scheme == SubSeq(input, 1, colon - 1)
      rest == SubSeq(input, colon + 1, Len(input))
  IN IF colon > Len(input) \/ scheme = << >> \/ \E i \in 1..Len(scheme) : scheme[i] \notin Letters
     THEN Err("relative URL without a base")
     ELSE IF Len(rest) >= 2 /\ rest[1] = "/" /\ rest[2] = "/"
     THEN LET after == SubSeq(rest, 3, Len(rest))
              hostEnd == FindFirst(after, {"/", "?"})
              host == SubSeq(after, 1, hostEnd - 1)
              tail == SubSeq(after, hostEnd, Len(after))
              q == FindFirst(tail, {"?"})
              path == SubSeq(tail, 1, q - 1)
          IN IF host = << >> THEN Err("empty host")
             ELSE Ok(Url(scheme, Some(host),
                         IF path = << >> THEN <<"/">> ELSE path,
                         IF q > Len(tail) THEN None ELSE Some(SubSeq(tail, q + 1, Len(tail)))))
     ELSE IF scheme \in SpecialSchemes
     THEN IF rest = << >> THEN Err("empty host") ELSE Ok(Url(scheme, Some(rest), <<"/">>, None))
     ELSE Ok(Url(scheme, None, rest, None))

(***************************************************************************)
(* client.rs: DuoClientInner and DuoClient::new_with_client.               *)
(***************************************************************************)
DuoClientInner(base_url, ikey, skey) == [base_url |-> base_url, ikey |-> ikey, skey |-> skey]

\* A constructor without the "fail fast when there's no domain" check.
new_with_client_unchecked(api_domain, ikey, skey) ==
  LET parsed == UrlParse(api_domain)
  IN IF IsErr(parsed) THEN Err(InvalidApiDomain(ErrVal(parsed)))
     ELSE Ok(DuoClientInner(OkVal(parsed), ikey, skey))

new_with_client(api_domain, ikey, skey) ==
  LET parsed == UrlParse(api_domain)
  IN IF IsErr(parsed) THEN Err(InvalidApiDomain(ErrVal(parsed)))
     ELSE IF ~IsSome(host_str(OkVal(parsed))) THEN Err(InvalidApiDomain("no domain in url"))
     ELSE Ok(DuoClientInner(OkVal(parsed), ikey, skey))

\* DuoClient::new : the reqwest client is built first, and a failure of its builder
\* is returned as Error::Unspecified before the domain is looked at.  client_built is
\* the outcome of reqwest::Client::builder().build(); a caller of new_with_client
\* hands in a client that exists, which is the case client_built = TRUE.
new(client_built, api_domain, ikey, skey) ==
  IF ~client_built THEN Err(Unspecified("reqwest builder"))
  ELSE new_with_client(api_domain, ikey, skey)

(***************************************************************************)
(* client.rs: the operations.                                              *)
(***************************************************************************)
P_check ==
  <<"/", "a", "u", "t", "h", "/", "v", "2", "/", "c", "h", "e", "c", "k">>
P_ping ==
  <<"/", "a", "u", "t", "h", "/", "v", "2", "/", "p", "i", "n", "g">>
P_preauth ==
  <<"/", "a", "u", "t", "h", "/", "v", "2", "/", "p", "r", "e", "a", "u", "t", "h">>
P_auth ==
  <<"/", "a", "u", "t", "h", "/", "v", "2", "/", "a", "u", "t", "h">>
P_auth_status ==
  <<"/", "a", "u", "t", "h", "/", "v", "2", "/", "a", "u", "t", "h", "_", "s", "t", "a", "t", "u", "s">>
P_enroll ==
  <<"/", "a", "u", "t", "h", "/", "v", "2", "/", "e", "n", "r", "o", "l", "l">>
P_enroll_status ==
  <<"/", "a", "u", "t", "h", "/", "v", "2", "/", "e", "n", "r", "o", "l", "l", "_", "s", "t", "a", "t", "u", "s">>

Digit(d) == <<"0", "1", "2", "3", "4", "5", "6", "7", "8", "9">>[d + 1]

\* u64::to_string
RECURSIVE to_string(_)
to_string(n) == IF n < 10 THEN <<Digit(n)>> ELSE to_string(n \div 10) \o <<Digit(n % 10)>>

RequestAuthParameters(data) ==
  AuthRequestApply(data, ParametersSet(ParametersDefault, K_async, V_1))

RequestAuthStatusParameters(tx_id) == ParametersSet(ParametersDefault, K_txid, tx_id)

RequestEnrollParameters(in) ==
  ParametersSetOpt(ParametersSetOpt(ParametersDefault, K_username, in.username),
                   K_valid_secs,
                   IF IsSome(in.valid_secs) THEN Some(to_string(Unwrap(in.valid_secs))) ELSE None)

RequestEnrollStatusParameters(in) ==
  ParametersSet(ParametersSet(ParametersDefault, K_user_id, in.user_id),
                K_activation_code, in.activation_code)

RequestPreauthParameters(data) == PreauthRequestApply(data, ParametersDefault)

\* The type each operation decodes its response into.
OpType(o) ==
  CASE o = "check" -> "CheckResponse"
    [] o = "ping" -> "PingResponse"
    [] o = "preauth" -> "PreauthResponse"
    [] o \in {"auth", "auth_wait"} -> "AuthResponse"
    [] o = "auth_status" -> "AuthStatusResponse"
    [] o = "enroll" -> "EnrollResponse"
    [] o = "enroll_status" -> "EnrollStatusResponse"

OpSpec(method, path, params, T) ==
  [method |-> method, path |-> path, parameters |-> params, T |-> T]

\* The request each operation makes from its input.
OpRequest(o, in) ==
  CASE o = "check" -> OpSpec("GET", P_check, ParametersDefault, OpType(o))
    [] o = "ping" -> OpSpec("GET", P_ping, ParametersDefault, OpType(o))
    [] o = "preauth" -> OpSpec("POST", P_preauth, RequestPreauthParameters(in), OpType(o))
    [] o \in {"auth", "auth_wait"} ->
         OpSpec("POST", P_auth, RequestAuthParameters(in), OpType(o))
    [] o = "auth_status" ->
         OpSpec("GET", P_auth_status, RequestAuthStatusParameters(in), OpType(o))
    [] o = "enroll" -> OpSpec("POST", P_enroll, RequestEnrollParameters(in), OpType(o))
    [] o = "enroll_status" ->
         OpSpec("POST", P_enroll_status, RequestEnrollStatusParameters(in), OpType(o))

\* DuoClient::new_request
new_request(this, method, path, params, now) ==
  LET r == build(DuoRequestNew(this.base_url, method, path, params, now), this.ikey, this.skey)
  IN IF IsErr(r) THEN Err(Unspecified("builder")) ELSE r

\* What an operation returns from the decoded payload (.map(|r| r.time), .map(|r| r.txid)).
OpResult(o, r) ==
  IF IsErr(r) THEN r
  ELSE CASE o \in {"check", "ping"} -> Ok(OkVal(r).time)
         [] o = "auth" -> Ok(OkVal(r).txid)
         [] OTHER -> r

(***************************************************************************)
(* State.                                                                  *)
(*   clock        the wall clock Utc::now() reads                          *)
(*   calls, parameters   a Parameters value and the set/set_opt calls made *)
(*                       on it                                             *)
(*   duo_request, built  a DuoRequest and what build / build_no_auth gave  *)
(*   body, decoded       a response body and what the envelope decoder and *)
(*                       DuoResponse::ok made of it                        *)
(*   data, auth_call     an AuthRequest and the parameters and request     *)
(*                       request_auth made of it                           *)
(*   client, new_result  the shared DuoClientInner and what construction   *)
(*                       returned                                          *)
(*   pc, op, input, txid, ret, log, inflight                               *)
(*                       per caller: the position of its future, the       *)
(*                       operation and its input, auth_wait's local txid,  *)
(*                       the value returned, the requests, responses and   *)
(*                       sleeps of the call so far, the request in flight  *)
(***************************************************************************)
VARIABLES clock, calls, parameters, duo_request, built, body, decoded, data, auth_call,
          client, new_result, pc, op, input, txid, ret, log, inflight

paramVars == <<calls, parameters>>
buildVars == <<duo_request, built>>
decodeVars == <<body, decoded>>
authVars == <<data, auth_call>>
clientVars == <<client, new_result, pc, op, input, txid, ret, log, inflight>>
vars == <<clock, paramVars, buildVars, decodeVars, authVars, clientVars>>

MaxClock == 1
MaxPolls == 2
PollIntervalSecs == 2

Callers == {"c1", "c2"}

ParamsIdle == calls = << >> /\ parameters = ParametersDefault
BuildIdle == duo_request = None /\ built = None
DecodeIdle == body = None /\ decoded = None
AuthIdle == data = None /\ auth_call = None
ClientIdle ==
  /\ client = None /\ new_result = None
  /\ pc = [c \in Callers |-> "idle"]
  /\ op = [c \in Callers |-> "none"]
  /\ input = [c \in Callers |-> None]
  /\ txid = [c \in Callers |-> None]
  /\ ret = [c \in Callers |-> None]
  /\ log = [c \in Callers |-> << >>]
  /\ inflight = [c \in Callers |-> None]

Tick == clock < MaxClock /\ clock' = clock + 1

(***************************************************************************)
(* The inputs of the client specification.                                 *)
(***************************************************************************)
D_https_h == <<"h", "t", "t", "p", "s", ":", "/", "/", "h">>
D_https_h_query == <<"h", "t", "t", "p", "s", ":", "/", "/", "h", "/", "p", "?", "q", "=", "1">>
D_not_a_url == <<"n", "o", "t", " ", "a", " ", "u", "r", "l">>
D_h_colon_1 == <<"h", ":", "1">>
D_https_nohost == <<"h", "t", "t", "p", "s", ":", "/", "/">>
Domains == {D_https_h, D_https_h_query, D_not_a_url, D_h_colon_1, D_https_nohost}

IKeys == {"DIXXXX"}
SKeys == {"secret"}

TxIds == {<<"t", "1">>, <<"t", "2">>}

AuthRequest(user, factor, ipaddr, hostname) ==
  [user |-> user, factor |-> factor, ipaddr |-> ipaddr, hostname |-> hostname]

\* AuthRequestFactor::auto()
FactorAuto == Factor("Auto", Some(V_auto), None, None, None, None)

\* AuthRequest::new
AuthRequestNew(user, factor) == AuthRequest(user, factor, None, None)

PreauthRequest(user, ipaddr, hostname, trusted_device_token) ==
  [user |-> user, ipaddr |-> ipaddr, hostname |-> hostname,
   trusted_device_token |-> trusted_device_token]

OpInputs(o) ==
  CASE o \in {"check", "ping"} -> {None}
    [] o \in {"auth", "auth_wait"} ->
         {AuthRequestNew(Username(<<"u">>), FactorAuto),
          AuthRequest(UserId(<<"u">>), Factor("Push", Some(<<"D">>), None, None, None, None),
                      Some(<<"1">>), None)}
    [] o = "auth_status" -> TxIds
    [] o = "preauth" -> {PreauthRequest(Username(<<"u">>), None, None, Some(<<"t">>))}
    [] o = "enroll" -> {[username |-> None, valid_secs |-> Some(30)],
                        [username |-> Some(<<"u">>), valid_secs |-> None]}
    [] o = "enroll_status" -> {[user_id |-> <<"u">>, activation_code |-> <<"a">>]}

Ops == {"check", "ping", "preauth", "auth", "auth_status", "auth_wait", "enroll",
        "enroll_status"}

\* The payloads a server may put in `response` for a request expecting T.
Payloads(T) ==
  CASE T = "AuthResponse" -> {Payload("txid", 0, t, "") : t \in TxIds}
    [] T = "AuthStatusResponse" ->
         {Payload("auth_status", 0, << >>, r) : r \in {"allow", "deny", "waiting", "maybe"}}
    [] T \in {"CheckResponse", "PingResponse"} -> {Payload("time", 123, << >>, "")}
    [] OTHER -> {Payload(ShapeOf(T), 0, << >>, "")}

ResponseTypes ==
  {"CheckResponse", "PingResponse", "AuthResponse", "AuthStatusResponse", "PreauthResponse",
   "EnrollResponse", "EnrollStatusResponse"}

\* What client.execute may return for a request expecting T.
OutcomesFor(T) ==
  {TransportError, Response(NotJson)}
    \cup {Response(JsonBody(Some(S_FAIL), None, Some(40002), Some("Invalid signature"), d)) :
            d \in {None, Some("detail")}}
    \cup {Response(JsonBody(Some(S_OK), Some(pl), None, None, None)) :
            pl \in Payloads(T) \cup {Payload("other", 0, << >>, "")}}

Outcomes == [T \in ResponseTypes |-> OutcomesFor(T)]

(***************************************************************************)
(* The log of one call.                                                    *)
(***************************************************************************)
\* What of a built request goes on the wire, without the date and the signature.
RequestLine(req) ==
  [method |-> req.method, host |-> req.url.host, path |-> req.url.path,
   query |-> req.url.query, body |-> req.body,
   ikey |-> Unwrap(req.headers.authorization).username]

NoLine ==
  [method |-> "", host |-> None, path |-> << >>, query |-> None, body |-> None, ikey |-> ""]

EvRequest(line) == [ev |-> "request", line |-> line, outcome |-> TransportError, secs |-> 0]
EvResponse(outcome) == [ev |-> "response", line |-> NoLine, outcome |-> outcome, secs |-> 0]
EvSleep(secs) == [ev |-> "sleep", line |-> NoLine, outcome |-> TransportError, secs |-> secs]

IsPollLine(line) == line.method = "GET" /\ line.path = P_auth_status
IsAuthLine(line) == line.method = "POST" /\ line.path = P_auth

Polls(l) == {i \in 1..Len(l) : l[i].ev = "request" /\ IsPollLine(l[i].line)}

(***************************************************************************)
(* The client specification: construction, then operations of the shared   *)
(* client issued by concurrent callers.                                    *)
(***************************************************************************)
\* DuoClient::new / new_with_client
New(client_built, api_domain, ikey, skey) ==
  /\ new_result = None
  /\ LET r == new(client_built, api_domain, ikey, skey)
     IN /\ new_result' = Some([domain |-> api_domain, ikey |-> ikey, skey |-> skey,
                               client_built |-> client_built,
                               ok |-> IsOk(r),
                               error |-> IF IsErr(r) THEN ErrVal(r).kind ELSE ""])
        /\ client' = IF IsOk(r) THEN Some(OkVal(r)) ELSE None
  /\ UNCHANGED <<pc, op, input, txid, ret, log, inflight>>

\* A caller calls an operation of the client: a new future.
Call(c, o, in) ==
  /\ IsSome(client)
  /\ pc[c] = "idle"
  /\ pc' = [pc EXCEPT ![c] = "start"]
  /\ op' = [op EXCEPT ![c] = o]
  /\ input' = [input EXCEPT ![c] = Some(in)]
  /\ UNCHANGED <<client, new_result, txid, ret, log, inflight>>

\* A txid kept in one place shared by all calls: the one stored last wins.
PollTxidShared(c) ==
  IF \E d \in Callers \ {c} : IsSome(txid[d])
  THEN Unwrap(txid[CHOOSE d \in Callers \ {c} : IsSome(txid[d])])
  ELSE Unwrap(txid[c])

\* The txid auth_wait polls: the local `txid` of this future.
PollTxid(c) == Unwrap(txid[c])

\* The request the future of c is about to make.
NextRequest(c) ==
  IF pc[c] \in {"poll", "poll_await"}
  THEN OpSpec("GET", P_auth_status, RequestAuthStatusParameters(PollTxid(c)),
              "AuthStatusResponse")
  ELSE OpRequest(op[c], Unwrap(input[c]))

\* The type the answer to that request is decoded into.
NextType(c) ==
  IF pc[c] \in {"poll", "poll_await"} THEN "AuthStatusResponse"
  ELSE OpType(op[c])

\* new_request, then client.execute(request): the request leaves.
Send(c) ==
  /\ pc[c] \in {"start", "poll"}
  /\ LET rs == NextRequest(c)
         r == new_request(Unwrap(client), rs.method, rs.path, rs.parameters, clock)
     IN IF IsOk(r)
        THEN /\ inflight' = [inflight EXCEPT ![c] = Some(OkVal(r))]
             /\ log' = [log EXCEPT ![c] = Append(@, EvRequest(RequestLine(OkVal(r))))]
             /\ pc' = [pc EXCEPT ![c] = IF @ = "start" THEN "await" ELSE "poll_await"]
             /\ ret' = ret
        ELSE /\ pc' = [pc EXCEPT ![c] = IF IsErr(r) THEN "done" ELSE "panicked"]
             /\ ret' = [ret EXCEPT ![c] = IF IsErr(r) THEN Some(r) ELSE None]
             /\ UNCHANGED <<inflight, log>>
  /\ UNCHANGED <<client, new_result, op, input, txid>>

\* An auth_wait that polls again at once, without sleeping.
AuthWaitStepNoSleep(c, r) ==
  IF IsErr(r) THEN [pc |-> "done", txid |-> txid[c], ret |-> Some(r)]
  ELSE IF pc[c] = "await" THEN [pc |-> "poll", txid |-> Some(OkVal(r).txid), ret |-> None]
  ELSE LET status == ready(OkVal(r))
       IN IF status = None THEN [pc |-> "poll", txid |-> txid[c], ret |-> None]
          ELSE [pc |-> "done", txid |-> txid[c], ret |-> Some(Ok(Unwrap(status)))]

\* An auth_wait that takes a failed poll for "not yet" and polls again.
AuthWaitStepRetry(c, r) ==
  IF IsErr(r) /\ pc[c] = "await" THEN [pc |-> "done", txid |-> txid[c], ret |-> Some(r)]
  ELSE IF IsErr(r) THEN [pc |-> "sleep", txid |-> txid[c], ret |-> None]
  ELSE IF pc[c] = "await" THEN [pc |-> "poll", txid |-> Some(OkVal(r).txid), ret |-> None]
  ELSE LET status == ready(OkVal(r))
       IN IF status = None THEN [pc |-> "sleep", txid |-> txid[c], ret |-> None]
          ELSE [pc |-> "done", txid |-> txid[c], ret |-> Some(Ok(Unwrap(status)))]

\* The position of auth_wait after the answer r to its auth submission or to a poll.
AuthWaitStep(c, r) ==
  IF IsErr(r) THEN [pc |-> "done", txid |-> txid[c], ret |-> Some(r)]
  ELSE IF pc[c] = "await" THEN [pc |-> "poll", txid |-> Some(OkVal(r).txid), ret |-> None]
  ELSE LET status == ready(OkVal(r))
       IN IF status = None THEN [pc |-> "sleep", txid |-> txid[c], ret |-> None]
          ELSE [pc |-> "done", txid |-> txid[c], ret |-> Some(Ok(Unwrap(status)))]

\* client.execute returns, send_request_json decodes, the operation goes on or returns.
Receive(c, outcome) ==
  /\ pc[c] \in {"await", "poll_await"}
  /\ LET r == send_request_json(NextType(c), outcome)
         step == IF op[c] = "auth_wait" THEN AuthWaitStep(c, r)
                 ELSE [pc |-> "done", txid |-> txid[c], ret |-> Some(OpResult(op[c], r))]
     IN /\ pc' = [pc EXCEPT ![c] = step.pc]
        /\ txid' = [txid EXCEPT ![c] = step.txid]
        /\ ret' = [ret EXCEPT ![c] = step.ret]
  /\ log' = [log EXCEPT ![c] = Append(@, EvResponse(outcome))]
  /\ inflight' = [inflight EXCEPT ![c] = None]
  /\ UNCHANGED <<client, new_result, op, input>>

\* tokio::time::sleep(Duration::from_secs(2)) completes; the loop goes round.
Sleep(c) ==
  /\ pc[c] = "sleep"
  /\ Cardinality(Polls(log[c])) < MaxPolls
  /\ log' = [log EXCEPT ![c] = Append(@, EvSleep(PollIntervalSecs))]
  /\ pc' = [pc EXCEPT ![c] = "poll"]
  /\ UNCHANGED <<client, new_result, op, input, txid, ret, inflight>>

\* The caller takes the result; the future and all it held are dropped.
Return(c) ==
  /\ pc[c] = "done"
  /\ pc' = [pc EXCEPT ![c] = "idle"]
  /\ op' = [op EXCEPT ![c] = "none"]
  /\ input' = [input EXCEPT ![c] = None]
  /\ txid' = [txid EXCEPT ![c] = None]
  /\ ret' = [ret EXCEPT ![c] = None]
  /\ log' = [log EXCEPT ![c] = << >>]
  /\ UNCHANGED <<client, new_result, inflight>>

Init ==
  /\ clock = 0
  /\ ParamsIdle /\ BuildIdle /\ DecodeIdle /\ AuthIdle /\ ClientIdle

Awaiting(c) == pc[c] \in {"await", "poll_await"}

ClientUnchanged == UNCHANGED <<clock, paramVars, buildVars, decodeVars, authVars>>

DoNew ==
  /\ \E client_built \in BOOLEAN, d \in Domains, ikey \in IKeys, skey \in SKeys :
       New(client_built, d, ikey, skey)
  /\ ClientUnchanged
DoCall ==
  (\E c \in Callers, o \in Ops : \E in \in OpInputs(o) : Call(c, o, in)) /\ ClientUnchanged
DoSend == (\E c \in Callers : Send(c)) /\ ClientUnchanged
DoReceive ==
  /\ \E c \in Callers :
       Awaiting(c) /\ \E outcome \in Outcomes[NextType(c)] : Receive(c, outcome)
  /\ ClientUnchanged
DoSleep == (\E c \in Callers : Sleep(c)) /\ ClientUnchanged
DoReturn == (\E c \in Callers : Return(c)) /\ ClientUnchanged

\* The operations of the client.  None of them depends on the date a request carries,
\* so the clock stands still here; it advances in SpecBuild, where the date is signed.
Next == DoNew \/ DoCall \/ DoSend \/ DoReceive \/ DoSleep \/ DoReturn

Spec == Init /\ [][Next]_vars

(***************************************************************************)
(* The parameter specification: any sequence of set / set_opt calls on one *)
(* Parameters value.                                                       *)
(***************************************************************************)
MaxCalls == 3

LabKeys == {<<"b">>, <<"a", "b">>, <<"a">>, <<"&">>}
LabValue1 == <<"x">>
LabValue2 == <<"&", "=", " ">>

CallSet(k, v) == [fn |-> "set", k |-> k, v |-> Some(v)]
CallSetOpt(k, v) == [fn |-> "set_opt", k |-> k, v |-> v]

ApplyCall(p, call) ==
  IF call.fn = "set" THEN ParametersSet(p, call.k, Unwrap(call.v))
  ELSE ParametersSetOpt(p, call.k, call.v)

RECURSIVE ApplyCalls(_, _)
ApplyCalls(p, cs) == IF cs = << >> THEN p ELSE ApplyCalls(ApplyCall(p, Head(cs)), Tail(cs))

DoCallOn(call) ==
  /\ Len(calls) < MaxCalls
  /\ calls' = Append(calls, call)
  /\ parameters' = ApplyCall(parameters, call)

ParamsUnchanged == UNCHANGED <<clock, buildVars, decodeVars, authVars, clientVars>>

PSet == (\E k \in LabKeys : DoCallOn(CallSet(k, LabValue1))) /\ ParamsUnchanged
PSetOptSome == (\E k \in LabKeys : DoCallOn(CallSetOpt(k, Some(LabValue2)))) /\ ParamsUnchanged
PSetOptNone == (\E k \in LabKeys : DoCallOn(CallSetOpt(k, None))) /\ ParamsUnchanged

ParamsNext == PSet \/ PSetOptSome \/ PSetOptNone

SpecParams == Init /\ [][ParamsNext]_vars

\* The key-to-value mapping a sequence of calls ends with (the last write of a key wins).
RECURSIVE MappingOf(_)
MappingOf(cs) ==
  IF cs = << >> THEN [k \in {} |-> << >>]
  ELSE LET m == MappingOf(SubSeq(cs, 1, Len(cs) - 1))
           c == cs[Len(cs)]
       IN IF IsSome(c.v)
          THEN [k \in DOMAIN m \cup {c.k} |-> IF k = c.k THEN Unwrap(c.v) ELSE m[k]]
          ELSE m

\* The pairs of a mapping in ascending key order, each "key=value" percent-encoded.
RECURSIVE AscendingPairs(_)
AscendingPairs(m) ==
  IF DOMAIN m = {} THEN << >>
  ELSE LET least == CHOOSE k \in DOMAIN m : \A j \in DOMAIN m : j = k \/ StrLess(k, j)
       IN <<urlencoding_encode(least) \o <<"=">> \o urlencoding_encode(m[least])>>
            \o AscendingPairs([k \in DOMAIN m \ {least} |-> m[k]])

Count(s, c) == Cardinality({i \in 1..Len(s) : s[i] = c})

DistinctKeys(cs) == \A i, j \in 1..Len(cs) : i # j => cs[i].k # cs[j].k

Permuted(cs, f) == [i \in 1..Len(cs) |-> cs[f[i]]]

\* C7: Parameters.serialize depends only on the final key-to-value mapping, not on the
\* order of the set/set_opt calls: it is the pairs of that mapping in ascending key
\* order joined by '&' (so exactly one separator between two pairs, none leading or
\* trailing, and the empty string for the empty map), and any permutation of calls with
\* pairwise distinct keys serializes to the same string.
C7_SerializeOrderIndependent ==
  LET out == ParametersSerialize(parameters)
      m == MappingOf(calls)
  IN /\ out = Join(AscendingPairs(m), <<"&">>)
     /\ Len(parameters) = Cardinality(DOMAIN m)
     /\ (DOMAIN m = {} => out = << >>)
     /\ Count(out, "&") = (IF Len(parameters) = 0 THEN 0 ELSE Len(parameters) - 1)
     /\ (out # << >> => out[1] # "&" /\ out[Len(out)] # "&")
     /\ (DistinctKeys(calls) =>
           \A f \in Permutations(1..Len(calls)) :
             ParametersSerialize(ApplyCalls(ParametersDefault, Permuted(calls, f))) = out)

\* Three calls with distinct keys made in descending key order, one of them a value that
\* needs encoding.
C7_Witness ==
  /\ Len(calls) = 3 /\ DistinctKeys(calls)
  /\ \A i \in 1..3 : IsSome(calls[i].v)
  /\ StrLess(calls[2].k, calls[1].k) /\ StrLess(calls[3].k, calls[2].k)
  /\ \E i \in 1..3 : calls[i].v = Some(LabValue2)

(***************************************************************************)
(* The builder specification: a DuoRequest made of any URL, method, path   *)
(* and parameters at some instant, then built by build or build_no_auth.   *)
(***************************************************************************)
LabUrls == {OkVal(UrlParse(d)) : d \in {D_https_h, D_https_h_query, D_h_colon_1}}
LabPaths == {P_ping, P_auth}
LabParameters ==
  {ParametersDefault,
   RequestAuthStatusParameters(<<"t", "1">>),
   ParametersSet(ParametersSet(ParametersDefault, <<"b">>, <<"a", " ", "b">>),
                 <<"a", "&">>, <<"=">>)}

BNew(url, method, path, params) ==
  /\ duo_request' = Some(DuoRequestNew(url, method, path, params, clock))
  /\ built' = None

\* A build that reads the clock again instead of using the date the DuoRequest holds.
BBuildResampled(ikey, skey) ==
  /\ IsSome(duo_request)
  /\ built' = Some([by |-> "build", at |-> clock,
                    result |-> build([Unwrap(duo_request) EXCEPT !.date = clock], ikey, skey)])
  /\ UNCHANGED duo_request

\* DuoRequest::build, called at the instant `at` on the DuoRequest made earlier.
BBuild(ikey, skey) ==
  /\ IsSome(duo_request)
  /\ built' = Some([by |-> "build", at |-> clock,
                    result |-> build(Unwrap(duo_request), ikey, skey)])
  /\ UNCHANGED duo_request

BBuildNoAuth ==
  /\ IsSome(duo_request)
  /\ built' = Some([by |-> "build_no_auth", at |-> clock,
                    result |-> build_no_auth(Unwrap(duo_request))])
  /\ UNCHANGED duo_request

BuildUnchanged == UNCHANGED <<paramVars, decodeVars, authVars, clientVars>>

DoBNew ==
  /\ \E url \in LabUrls, method \in Methods, path \in LabPaths, params \in LabParameters :
       BNew(url, method, path, params)
  /\ UNCHANGED clock /\ BuildUnchanged
DoBBuild == (\E ikey \in IKeys, skey \in SKeys : BBuild(ikey, skey)) /\ UNCHANGED clock /\ BuildUnchanged
DoBBuildNoAuth == BBuildNoAuth /\ UNCHANGED clock /\ BuildUnchanged
DoBTick == Tick /\ UNCHANGED buildVars /\ BuildUnchanged

BuildNext == DoBNew \/ DoBBuild \/ DoBBuildNoAuth \/ DoBTick

SpecBuild == Init /\ [][BuildNext]_vars

Produced == IsSome(built) /\ IsOk(Unwrap(built).result)
BuiltRequest == OkVal(Unwrap(built).result)

\* C6: in every request build or build_no_auth produces, the method alone decides where
\* the parameters go: for GET and HEAD the canonical parameter string is the URL query
\* and there is no body and no Content-Type; for any other method the body is the
\* canonical parameter string, Content-Type is application/x-www-form-urlencoded and the
\* URL's query is the base URL's; also for the empty parameter map.
C6_QueryXorBody ==
  Produced =>
    LET d == Unwrap(duo_request)
        r == BuiltRequest
        str == ParametersSerialize(d.parameters)
    IN /\ r.method = d.method
       /\ r.url.path = d.path
       /\ IF d.method \in {"GET", "HEAD"}
          THEN /\ r.url.query = Some(str)
               /\ r.body = None
               /\ r.headers.content_type = None
          ELSE /\ r.body = Some(str)
               /\ r.headers.content_type = Some("application/x-www-form-urlencoded")
               /\ r.url.query = d.url.query

\* A HEAD request with the empty parameter map built on a base URL that has a query.
C6_Witness ==
  /\ Produced
  /\ Unwrap(duo_request).method = "HEAD"
  /\ Unwrap(duo_request).parameters = ParametersDefault
  /\ IsSome(Unwrap(duo_request).url.query)
  /\ BuiltRequest.url.query = Some(<< >>)

Signed == Produced /\ Unwrap(built).by = "build"

\* The payload under the signature a built request carries as its password.
SignedPayload == Unwrap(BuiltRequest.headers.authorization).password.hmac_sha1.payload

\* The parameter string a built request transmits: its query for GET and HEAD, its body
\* for any other method.
Transmitted ==
  IF BuiltRequest.method \in {"GET", "HEAD"}
  THEN Unwrap(BuiltRequest.url.query)
  ELSE Unwrap(BuiltRequest.body)

\* What is signed is what is sent, and the date is the one the DuoRequest was made with.
SignedIsTransmitted ==
  Signed =>
    LET d == Unwrap(duo_request)
    IN /\ SignedPayload.parameters = Transmitted
       /\ SignedPayload.parameters = ParametersSerialize(d.parameters)
       /\ Some(SignedPayload.date) = BuiltRequest.headers.date
       /\ SignedPayload.date = to_rfc2822(d.date)
       /\ d.date <= Unwrap(built).at

\* A build of the DuoRequest that was built before yields the same Date header and the
\* same signature.
RebuildIsSame ==
  (Signed /\ Signed' /\ duo_request' = duo_request) =>
    /\ BuiltRequest.headers.date' = BuiltRequest.headers.date
    /\ BuiltRequest.headers.authorization' = BuiltRequest.headers.authorization

\* C11: in every request build produces, what is signed is what is transmitted: the
\* parameter string in the signature payload is the string in the URL query (GET, HEAD)
\* or in the body (other methods), and the timestamp in the signature payload is the one
\* the Date header renders; the timestamp is the one sampled when the DuoRequest was
\* constructed, so building the same DuoRequest again, at any later instant, yields the
\* same Date header and the same signature.
C11_SignedIsTransmitted == []SignedIsTransmitted /\ [][RebuildIsSame]_vars

\* A GET request whose parameters need percent-encoding, built by build at an instant
\* later than the one its DuoRequest was constructed at.
C11_Witness ==
  /\ Signed
  /\ Unwrap(duo_request).method = "GET"
  /\ \E i \in 1..Len(Transmitted) : Transmitted[i] = "%"
  /\ Unwrap(duo_request).date < Unwrap(built).at

(***************************************************************************)
(* The envelope specification: any response body, decoded by               *)
(* send_request_json into the envelope and then into the result.           *)
(***************************************************************************)
\* Every letter-case spelling of a word.
LowerOf(c) ==
  CASE c = "O" -> "o" [] c = "K" -> "k" [] c = "F" -> "f" [] c = "A" -> "a"
    [] c = "I" -> "i" [] c = "L" -> "l"

CaseVariants(w) ==
  {[i \in 1..Len(w) |-> IF lower[i] THEN LowerOf(w[i]) ELSE w[i]] :
     lower \in [1..Len(w) -> BOOLEAN]}

LabStats == CaseVariants(S_OK) \cup CaseVariants(S_FAIL) \cup {<<"O">>, <<"O", "K", "K">>}

LabBodies ==
  {NotJson} \cup
  {JsonBody(stat, response, code, message, detail) :
     stat \in {None} \cup {Some(st) : st \in LabStats},
     response \in {None, Some(Payload("time", 123, << >>, ""))},
     code \in {None, Some(40002)},
     message \in {None, Some("Invalid signature")},
     detail \in {None, Some("detail")}}

LabOutcomes == {TransportError} \cup {Response(b) : b \in LabBodies}

DReceive(T, outcome) ==
  /\ body = None
  /\ body' = Some([T |-> T, outcome |-> outcome])
  /\ decoded' = None

DDecode ==
  /\ IsSome(body) /\ decoded = None
  /\ decoded' =
       Some([envelope |-> IF Unwrap(body).outcome.net = "ok"
                          THEN Some(DuoResponseDeserialize(Unwrap(body).T,
                                                           Unwrap(body).outcome.body))
                          ELSE None,
             result |-> send_request_json(Unwrap(body).T, Unwrap(body).outcome)])
  /\ UNCHANGED body

DecodeUnchanged == UNCHANGED <<clock, paramVars, buildVars, authVars, clientVars>>

DoDReceive ==
  /\ \E T \in {"CheckResponse", "AuthResponse"}, outcome \in LabOutcomes : DReceive(T, outcome)
  /\ DecodeUnchanged
DoDDecode == DDecode /\ DecodeUnchanged

DecodeNext == DoDReceive \/ DoDDecode

SpecDecode == Init /\ [][DecodeNext]_vars

Decoded == IsSome(decoded) /\ IsSome(Unwrap(decoded).envelope)
DecodedStat == Unwrap(Unwrap(body).outcome.body.stat)
DecodedBody == Unwrap(body).outcome.body
DecodedEnvelope == Unwrap(Unwrap(decoded).envelope)

\* The members the Ok variant needs are there and decode into T.
OkMembers ==
  /\ IsSome(DecodedBody.response)
  /\ Unwrap(DecodedBody.response).shape = ShapeOf(Unwrap(body).T)
\* The members the Fail variant needs are there.
FailMembers == IsSome(DecodedBody.code) /\ IsSome(DecodedBody.message)

LabStrings == {<< >>, <<"x">>}
LabOptions == {None} \cup {Some(v) : v \in LabStrings}

LabUsers == {UserId(v) : v \in LabStrings} \cup {Username(v) : v \in LabStrings}

LabFactors ==
  {Factor("Auto", d, None, t, u, i) : d \in LabOptions \cup {Some(V_auto)}, t, u, i \in LabOptions}
    \cup {Factor("Push", Some(d), None, t, u, i) : d \in LabStrings, t, u, i \in LabOptions}
    \cup {Factor("Passcode", None, Some(v), None, None, None) : v \in LabStrings}
    \cup {Factor("Phone", Some(d), None, None, None, None) : d \in LabStrings}
    \cup {Factor("Sms", Some(d), None, None, None, None) : d \in LabStrings}

LabClient == OkVal(new_with_client(D_https_h, "DIXXXX", "secret"))

AData(d) ==
  /\ data = None
  /\ data' = Some(d)
  /\ UNCHANGED auth_call

\* DuoClient::request_auth up to the request it hands to the transport.
ARequestAuth ==
  /\ IsSome(data) /\ auth_call = None
  /\ LET p == RequestAuthParameters(Unwrap(data))
     IN auth_call' = Some([parameters |-> p,
                           request |-> new_request(LabClient, "POST", P_auth, p, clock)])
  /\ UNCHANGED data

AuthUnchanged == UNCHANGED <<clock, paramVars, buildVars, decodeVars, clientVars>>

DoAData ==
  /\ \E user \in LabUsers, factor \in LabFactors, ipaddr \in LabOptions, hostname \in LabOptions :
       AData(AuthRequest(user, factor, ipaddr, hostname))
  /\ AuthUnchanged
DoARequestAuth == ARequestAuth /\ AuthUnchanged

AuthNext == DoAData \/ DoARequestAuth

SpecAuth == Init /\ [][AuthNext]_vars

\* Key k is in the map with value v.
Sent(p, k, v) == \E i \in 1..Len(p) : p[i].k = k /\ p[i].v = v
\* Key k is in the map iff the optional field is set, and then with its value.
SentIffSet(p, k, o) == IF IsSome(o) THEN Sent(p, k, Unwrap(o)) ELSE ~ParamHas(p, k)

\* C8: the parameter map auth sends holds async=1 whatever the input, exactly one of
\* user_id / username, the factor entry with the lowercase name of the variant and the
\* variant's required field (device for push, phone, sms; passcode for passcode), and
\* no key at all for an optional field that is unset (ipaddr, hostname, type,
\* display_username, push_info; device of auto).
C8_AuthParameters ==
  IsSome(auth_call) =>
    LET d == Unwrap(data)
        f == d.factor
        p == Unwrap(auth_call).parameters
        req == Unwrap(auth_call).request
    IN /\ Sent(p, <<"a", "s", "y", "n", "c">>, <<"1">>)
       /\ IF d.user.variant = "UserId"
          THEN Sent(p, K_user_id, d.user.val) /\ ~ParamHas(p, K_username)
          ELSE Sent(p, K_username, d.user.val) /\ ~ParamHas(p, K_user_id)
       /\ Cardinality({i \in 1..Len(p) : p[i].k = K_factor}) = 1
       /\ f.variant = "Auto" => Sent(p, K_factor, <<"a", "u", "t", "o">>)
       /\ f.variant = "Push" => Sent(p, K_factor, <<"p", "u", "s", "h">>)
       /\ f.variant = "Passcode" =>
            Sent(p, K_factor, <<"p", "a", "s", "s", "c", "o", "d", "e">>)
       /\ f.variant = "Phone" => Sent(p, K_factor, <<"p", "h", "o", "n", "e">>)
       /\ f.variant = "Sms" => Sent(p, K_factor, <<"s", "m", "s">>)
       /\ f.variant \in {"Push", "Phone", "Sms"} => Sent(p, K_device, Unwrap(f.device))
       /\ f.variant = "Passcode" => Sent(p, K_passcode, Unwrap(f.passcode))
       /\ SentIffSet(p, K_device, f.device)
       /\ SentIffSet(p, K_passcode, f.passcode)
       /\ SentIffSet(p, K_type, f.type)
       /\ SentIffSet(p, K_display_username, f.display_username)
       /\ SentIffSet(p, K_push_info, f.push_info)
       /\ SentIffSet(p, K_ipaddr, d.ipaddr)
       /\ SentIffSet(p, K_hostname, d.hostname)
       /\ IsOk(req) /\ OkVal(req).body = Some(ParametersSerialize(p))

\* request_auth has run on a push request with every optional field unset.
C8_Witness ==
  /\ IsSome(auth_call)
  /\ Unwrap(data).factor = Factor("Push", Some(<<"x">>), None, None, None, None)
  /\ Unwrap(data).ipaddr = None /\ Unwrap(data).hostname = None
  /\ Len(Unwrap(auth_call).parameters) = 4

(***************************************************************************)
(* Reading the log of a call.                                              *)
(***************************************************************************)
IsRequest(e) == e.ev = "request"
IsResponse(e) == e.ev = "response"
IsSleep(e) == e.ev = "sleep"

\* The transport failed.
IsTransportError(o) == o.net = "error"
\* The body is a Fail envelope.
IsFailEnvelope(o) ==
  /\ o.net = "ok" /\ o.body.json /\ o.body.stat = Some(<<"F", "A", "I", "L">>)
  /\ IsSome(o.body.code) /\ IsSome(o.body.message)
\* The body is an Ok envelope whose payload has the members of the given shape.
IsOkEnvelope(o, shape) ==
  /\ o.net = "ok" /\ o.body.json /\ o.body.stat = Some(<<"O", "K">>)
  /\ IsSome(o.body.response) /\ Unwrap(o.body.response).shape = shape
AnswerPayload(o) == Unwrap(o.body.response)
\* The answer to a poll, with the result it carries.
IsPollAnswer(l, i, result) ==
  /\ i > 1 /\ IsResponse(l[i]) /\ IsRequest(l[i - 1]) /\ IsPollLine(l[i - 1].line)
  /\ IsOkEnvelope(l[i].outcome, "auth_status")
  /\ AnswerPayload(l[i].outcome).result = result

Returned(c, v) == pc[c] = "done" /\ IsSome(ret[c]) /\ IsOk(Unwrap(ret[c])) /\ OkVal(Unwrap(ret[c])) = v
ReturnedErr(c, e) ==
  pc[c] = "done" /\ IsSome(ret[c]) /\ IsErr(Unwrap(ret[c])) /\ ErrVal(Unwrap(ret[c])) = e

AuthWaiters == {c \in Callers : op[c] = "auth_wait"}

\* C1: in an execution of auth_wait the first request is the one auth submission; every
\* later request is an auth_status poll carrying the txid that submission returned;
\* a request is answered before the next one leaves; between two consecutive polls there
\* is exactly one sleep; auth is not submitted again.
C1_SubmitOnceThenPoll ==
  \A c \in AuthWaiters :
    LET l == log[c]
    IN /\ l # << >> =>
            /\ IsRequest(l[1]) /\ IsAuthLine(l[1].line)
            /\ l[1].line.body = Some(ParametersSerialize(RequestAuthParameters(Unwrap(input[c]))))
       /\ \A i \in 2..Len(l) :
            IsRequest(l[i]) =>
              /\ ~IsAuthLine(l[i].line)
              /\ l[i].line.method = "GET" /\ l[i].line.path = P_auth_status
              /\ IsOkEnvelope(l[2].outcome, "txid")
              /\ l[i].line.query =
                   Some(<<"t", "x", "i", "d", "=">> \o AnswerPayload(l[2].outcome).txid)
              /\ l[i].line.body = None
       /\ \A i \in 1..Len(l) : IsRequest(l[i]) /\ i < Len(l) => IsResponse(l[i + 1])
       /\ \A i, j \in Polls(l) :
            (i < j /\ \A k \in Polls(l) : ~(i < k /\ k < j)) =>
              Cardinality({k \in i..j : IsSleep(l[k])}) = 1
       /\ \A i \in 1..Len(l) : IsSleep(l[i]) => l[i].secs = 2

\* An auth_wait has polled twice.
C1_Witness == \E c \in AuthWaiters : Cardinality(Polls(log[c])) = 2

\* C2: auth_wait returns Ok(true) only right after a poll answered Allow and Ok(false)
\* only right after a poll answered Deny, and it returns at that poll; a poll answered
\* Waiting never makes it return: a sleep and another poll follow.
C2_ReturnOnlyOnAllowDeny ==
  \A c \in AuthWaiters :
    LET l == log[c]
    IN /\ Returned(c, TRUE) => IsPollAnswer(l, Len(l), "allow")
       /\ Returned(c, FALSE) => IsPollAnswer(l, Len(l), "deny")
       /\ \A i \in 1..Len(l) :
            /\ IsPollAnswer(l, i, "allow") => i = Len(l) /\ Returned(c, TRUE)
            /\ IsPollAnswer(l, i, "deny") => i = Len(l) /\ Returned(c, FALSE)
            /\ IsPollAnswer(l, i, "waiting") =>
                 /\ i = Len(l) => pc[c] = "sleep" /\ ret[c] = None
                 /\ i < Len(l) => IsSleep(l[i + 1])
                 /\ i + 1 = Len(l) => pc[c] = "poll"
                 /\ i + 1 < Len(l) => IsRequest(l[i + 2]) /\ IsPollLine(l[i + 2].line)

\* An auth_wait has returned Ok(true) at its second poll, the first answered Waiting.
C2_Witness ==
  \E c \in AuthWaiters :
    /\ Returned(c, TRUE)
    /\ Cardinality(Polls(log[c])) = 2
    /\ \E i \in 1..Len(log[c]) : IsPollAnswer(log[c], i, "waiting")

\* The error a failed request gives.
ErrorOf(o) ==
  IF IsTransportError(o) THEN Unspecified("transport")
  ELSE ApiRequestFailed(Unwrap(o.body.code), Unwrap(o.body.message), o.body.message_detail)

\* C3: when the auth submission or a poll of auth_wait fails (transport error or Fail
\* envelope), auth_wait returns that error and stops: the failed request is the last one,
\* nothing is retried, re-submitted or polled again; when the submission fails, no poll
\* is ever made.
C3_FirstErrorAborts ==
  \A c \in AuthWaiters :
    LET l == log[c]
    IN \A i \in 1..Len(l) :
         (IsResponse(l[i]) /\ (IsTransportError(l[i].outcome) \/ IsFailEnvelope(l[i].outcome))) =>
           /\ i = Len(l)
           /\ ReturnedErr(c, ErrorOf(l[i].outcome))
           /\ Cardinality({k \in 1..Len(l) : IsRequest(l[k]) /\ IsAuthLine(l[k].line)}) = 1
           /\ i = 2 => Polls(l) = {}

\* An auth_wait has returned the Fail envelope its second poll was answered with.
C3_Witness ==
  \E c \in AuthWaiters :
    /\ Cardinality(Polls(log[c])) = 2
    /\ IsFailEnvelope(log[c][Len(log[c])].outcome)
    /\ pc[c] = "done"

\* What the operation o returns for the payload pl of an Ok envelope.
PayloadResult(o, pl) ==
  CASE o \in {"check", "ping"} -> pl.time
    [] o = "auth" -> pl.txid
    [] o = "auth_status" ->
         [pl EXCEPT !.result = CASE pl.result = "allow" -> "Allow"
                                 [] pl.result = "deny" -> "Deny"
                                 [] pl.result = "waiting" -> "Waiting"]
    [] OTHER -> pl

\* The payload decodes into what the operation o expects.
PayloadFits(o, outcome) ==
  /\ IsOkEnvelope(outcome, ShapeOf(OpType(o)))
  /\ o = "auth_status" => AnswerPayload(outcome).result \in {"allow", "deny", "waiting"}

\* C5: for every operation a Fail{code, message, message_detail} envelope comes back as
\* the ApiRequestFailed error with that code, message and detail, and an Ok{payload}
\* envelope gives the payload unchanged; ApiRequestFailed comes from a Fail envelope
\* only (a transport error or an undecodable body gives Unspecified); an operation does
\* not send a failed request again.
C5_FailEnvelopeIsApiError ==
  \A c \in Callers :
    LET l == log[c]
    IN /\ \A i \in 1..Len(l) :
            IsResponse(l[i]) =>
              LET o == l[i].outcome
              IN /\ IsFailEnvelope(o) =>
                      /\ i = Len(l)
                      /\ ReturnedErr(c, ApiRequestFailed(Unwrap(o.body.code),
                                                         Unwrap(o.body.message),
                                                         o.body.message_detail))
                 /\ (IsTransportError(o) \/ ~o.body.json) =>
                      /\ i = Len(l) /\ pc[c] = "done"
                      /\ IsErr(Unwrap(ret[c])) /\ ErrVal(Unwrap(ret[c])).kind = "Unspecified"
                 /\ (op[c] # "auth_wait" /\ PayloadFits(op[c], o)) =>
                      Returned(c, PayloadResult(op[c], AnswerPayload(o)))
       /\ (pc[c] = "done" /\ IsErr(Unwrap(ret[c]))) =>
            /\ ErrVal(Unwrap(ret[c])).kind \in {"ApiRequestFailed", "Unspecified"}
            /\ ErrVal(Unwrap(ret[c])).kind = "ApiRequestFailed" =>
                 l # << >> /\ IsResponse(l[Len(l)]) /\ IsFailEnvelope(l[Len(l)].outcome)
       /\ op[c] # "auth_wait" => Cardinality({i \in 1..Len(l) : IsRequest(l[i])}) <= 1

\* preauth has returned the error of a Fail envelope that carries a detail.
C5_Witness ==
  \E c \in Callers :
    /\ op[c] = "preauth"
    /\ ReturnedErr(c, ApiRequestFailed(40002, "Invalid signature", Some("detail")))

\* The domain parses as an absolute URL that has a host.
HasHost(domain) == IsOk(UrlParse(domain)) /\ IsSome(OkVal(UrlParse(domain)).host)

\* What the state says about construction besides the error it returned: it succeeded
\* only for a domain that parses with a host, a refusal leaves no client, a client
\* exists only after a success and has a base URL with a host, and no operation ever
\* fails or panics for want of a host.
ConstructionNeverDeferred ==
  /\ IsSome(new_result) =>
       LET n == Unwrap(new_result)
       IN /\ n.ok => HasHost(n.domain)
          /\ ~n.ok => client = None
          /\ n.ok => IsSome(client)
  /\ IsSome(client) =>
       /\ IsSome(new_result) /\ Unwrap(new_result).ok
       /\ IsSome(Unwrap(client).base_url.host)
  /\ \A c \in Callers :
       /\ client = None => pc[c] = "idle"
       /\ pc[c] # "panicked"
       /\ IsSome(inflight[c]) => IsSome(Unwrap(inflight[c]).url.host)
       /\ (pc[c] = "done" /\ IsErr(Unwrap(ret[c]))) =>
            ErrVal(Unwrap(ret[c])).kind # "InvalidApiDomain"

\* C9 as stated: construction succeeds only if the API domain parses as an absolute URL
\* with a host; otherwise it returns InvalidApiDomain and there is no client; so every
\* request an operation of a constructed client signs has a base URL with a host, and
\* the host lookup in signing never fails.  Violated by DuoClient::new when the reqwest
\* builder fails: the error is Unspecified whatever the domain.
C9_RefusalIsAlwaysInvalidApiDomain ==
  /\ ConstructionNeverDeferred
  /\ (IsSome(new_result) /\ ~Unwrap(new_result).ok) =>
       Unwrap(new_result).error = "InvalidApiDomain"

\* C9, amended: construction succeeds exactly when the HTTP client exists and the API
\* domain parses as an absolute URL with a host; a refusal happens at construction time
\* and leaves no client; its error is InvalidApiDomain when the HTTP client exists
\* (always so for new_with_client) and Unspecified when new could not build its HTTP
\* client; every request an operation of a constructed client signs has a base URL
\* with a host, and the host lookup in signing never fails.
C9_InvalidDomainFailsConstruction ==
  /\ ConstructionNeverDeferred
  /\ IsSome(new_result) =>
       LET n == Unwrap(new_result)
       IN /\ n.ok <=> (n.client_built /\ HasHost(n.domain))
          /\ (~n.ok /\ n.client_built) => n.error = "InvalidApiDomain"
          /\ ~n.client_built => n.error = "Unspecified"

\* Construction with an HTTP client in hand was refused with InvalidApiDomain for a
\* domain that parses but has no host, and no client exists.
C9_Witness ==
  /\ IsSome(new_result)
  /\ Unwrap(new_result).client_built
  /\ IsOk(UrlParse(Unwrap(new_result).domain))
  /\ ~Unwrap(new_result).ok
  /\ Unwrap(new_result).error = "InvalidApiDomain"
  /\ client = None

\* The txid the server returned to the submission of the auth_wait of c.
OwnTxid(c) == AnswerPayload(log[c][2].outcome).txid

\* The request a call makes, as its own input, its own submission's answer and the
\* construction values give it.
OwnRequest(c, now) ==
  LET n == Unwrap(new_result)
      base == OkVal(UrlParse(n.domain))
      rs == IF pc[c] = "poll_await"
            THEN OpSpec("GET", P_auth_status,
                        ParametersSet(ParametersDefault, K_txid, OwnTxid(c)), "AuthStatusResponse")
            ELSE OpRequest(op[c], Unwrap(input[c]))
  IN OkVal(build(DuoRequestNew(base, rs.method, rs.path, rs.parameters, now), n.ikey, n.skey))

\* C10: whatever operations run and however they interleave on the shared client, its
\* base URL, integration key and secret key stay what construction made them, and the
\* request a call has in flight is the one its own input and the construction values
\* give: concurrent auth_wait calls each poll the txid of their own submission.
C10_SharedClientImmutable ==
  IsSome(client) =>
    /\ IsSome(new_result)
    /\ Unwrap(client) =
         [base_url |-> OkVal(UrlParse(Unwrap(new_result).domain)),
          ikey |-> Unwrap(new_result).ikey, skey |-> Unwrap(new_result).skey]
    /\ \A c \in Callers :
         IsSome(inflight[c]) =>
           /\ pc[c] \in {"await", "poll_await"}
           /\ Unwrap(inflight[c]) =
                OwnRequest(c, Unwrap(Unwrap(inflight[c]).headers.date).rfc2822)
           /\ log[c][Len(log[c])] = EvRequest(RequestLine(Unwrap(inflight[c])))

\* Two auth_wait calls are polling at once, each its own txid, and the two differ.
C10_Witness ==
  /\ \A c \in Callers : op[c] = "auth_wait" /\ pc[c] = "poll_await"
  /\ \E c, d \in Callers : OwnTxid(c) # OwnTxid(d)
====
